---- MODULE Spec2Model ----
(***************************************************************************)
(* SCD2 historisation of the Gold tables (scripts/gold/apply_gold_*.py and *)
(* scripts/apply_gold_demande_avance.py).                                  *)
(*                                                                         *)
(* A run of one of the four entity scripts resolves the latest SUCCESS     *)
(* batch, loads the silver snapshot and the current gold versions, issues  *)
(* close / insert statements inside one transaction and commits; any       *)
(* exception rolls the transaction back.                                   *)
(*                                                                         *)
(* Upstream, a run of scripts/bronze/load_file.py or scripts/load_silver.py *)
(* registers a batch in etl.batch_run (scripts/common.py), checks the      *)
(* columns of a file, upserts its rows into silver_raw, removes the rows   *)
(* the file lacks (load_file) and records the outcome of the batch.        *)
(*                                                                         *)
(* Representation of values.  A column value is a string; SQL NULL /       *)
(* Python None is the reserved token NULL.  A numeric amount is written as *)
(* the repr of its Python float ("100.0"), a date as its ISO text.  The    *)
(* validity dates valid_from / valid_to and the as-of date are integers    *)
(* yyyymmdd, so that they can be ordered.  md5 is taken to be free of      *)
(* collisions: the digest of a string is modelled by the string itself.    *)
(***************************************************************************)
EXTENDS Integers, Sequences, FiniteSets, TLC

VARIABLES
    batch_run,   \* etl.batch_run: sequence of rows, batch_id = position
    histo,       \* histo[s]: committed rows of the gold history table of s
    deployed,    \* the entity scripts that are run against this database
    pc,          \* pc[p]: position of runner p inside main()
    loc,         \* loc[p]: local variables of main() of runner p
    tx,          \* tx[p]: uncommitted writes of the connection of runner p
    fp,          \* two calls of the fingerprint function: arguments and results
    silver_raw,  \* silver_raw[d]: committed rows of silver_raw.<d>, by primary key
    ing          \* ing[p]: position and local variables of ingestion run p

vars == <<batch_run, histo, deployed, pc, loc, tx, fp, silver_raw, ing>>

-----------------------------------------------------------------------------
(* Bounds and input sets *)

MaxRows == 3                    \* rows a history table may come to hold
Sentinel == 99991231            \* date '9999-12-31'

Keys == {"A", "B"}
AsOfDates == {20240825, 20240826, 20240827}
Scripts == {"salarie", "paiement", "demande_avance", "demande_avance_paiement"}
Datasets == {"salarie", "paiement", "demande_avance"}
Procs == {1, 2}
SeqProcs == {1}

NULL == "<null>"

-----------------------------------------------------------------------------
(* Python conversions *)

\* str(v): None becomes the text "None"; text, float repr and ISO date are kept.
str(v) == IF v = NULL THEN "None" ELSE v

\* float(v): the amounts of the model are exactly representable, so the value
\* read back from a numeric column converts to the float it was written from.
float(v) == v

\* float(v) if v is not None else None
float_or_none(v) == IF v = NULL THEN NULL ELSE float(v)

\* str(v) if v is not None else None
str_or_none(v) == IF v = NULL THEN NULL ELSE str(v)

\* float(None) raises TypeError
float_raises(v) == v = NULL

\* str(True) / str(False)
pybool(b) == IF b THEN "True" ELSE "False"

RECURSIVE join(_)
join(vs) ==
    IF Len(vs) = 0 THEN ""
    ELSE IF Len(vs) = 1 THEN vs[1]
    ELSE vs[1] \o "||" \o join(Tail(vs))

\* Variant: None is hashed as the text str() gives it.
md5_hash_none_as_text(values) ==
    join([i \in 1..Len(values) |-> str(values[i])])

RECURSIVE concat(_)
concat(vs) == IF Len(vs) = 0 THEN "" ELSE vs[1] \o concat(Tail(vs))

\* Variant: the values are joined without a separator.
md5_hash_unseparated(values) ==
    concat([i \in 1..Len(values) |-> IF values[i] = NULL THEN "" ELSE str(values[i])])

\* md5_hash(values): "||".join("" if v is None else str(v) for v in values)
md5_hash(values) ==
    join([i \in 1..Len(values) |-> IF values[i] = NULL THEN "" ELSE str(values[i])])

\* the hash of the business attributes followed by the deletion flag
compute_hash(attrs, is_deleted) == md5_hash(Append(attrs, pybool(is_deleted)))

-----------------------------------------------------------------------------
(* The batch registry as the gold scripts read it *)

\* A registry the ingestion has left behind: several datasets and dates, a
\* failed and a started attempt, and two successful batches for one pair.
BatchTable ==
    << [dataset |-> "salarie",        as_of_date |-> 20240825, status |-> "SUCCESS"],
       [dataset |-> "paiement",       as_of_date |-> 20240825, status |-> "SUCCESS"],
       [dataset |-> "demande_avance", as_of_date |-> 20240825, status |-> "SUCCESS"],
       [dataset |-> "salarie",        as_of_date |-> 20240826, status |-> "FAILED"],
       [dataset |-> "salarie",        as_of_date |-> 20240826, status |-> "SUCCESS"],
       [dataset |-> "paiement",       as_of_date |-> 20240826, status |-> "SUCCESS"],
       [dataset |-> "demande_avance", as_of_date |-> 20240826, status |-> "SUCCESS"],
       [dataset |-> "salarie",        as_of_date |-> 20240826, status |-> "SUCCESS"],
       [dataset |-> "demande_avance", as_of_date |-> 20240826, status |-> "SUCCESS"],
       [dataset |-> "paiement",       as_of_date |-> 20240826, status |-> "STARTED"],
       [dataset |-> "salarie",        as_of_date |-> 20240827, status |-> "FAILED"],
       [dataset |-> "paiement",       as_of_date |-> 20240827, status |-> "STARTED"] >>

SetMax(S) == CHOOSE x \in S : \A y \in S : y <= x
SetMin(S) == CHOOSE x \in S : \A y \in S : x <= y

\* The batch ids the query of get_latest_batch_id ranges over.
success_batches(br, dataset, as_of) ==
    {i \in 1..Len(br) : /\ br[i].dataset = dataset
                        /\ br[i].as_of_date = as_of
                        /\ br[i].status = "SUCCESS"}

\* Variant: the status filter is missing from the query.
get_latest_batch_id_any_status(br, dataset, as_of) ==
    IF {i \in 1..Len(br) : br[i].dataset = dataset /\ br[i].as_of_date = as_of} = {} THEN 0
    ELSE SetMax({i \in 1..Len(br) : br[i].dataset = dataset /\ br[i].as_of_date = as_of})

\* Variant: order by batch_id asc.
get_latest_batch_id_oldest(br, dataset, as_of) ==
    IF success_batches(br, dataset, as_of) = {} THEN 0
    ELSE SetMin(success_batches(br, dataset, as_of))

\* select batch_id ... order by batch_id desc limit 1.  batch_id is a serial,
\* so 0 is no batch: it stands for the RuntimeError raised when no row is found.
get_latest_batch_id(br, dataset, as_of) ==
    IF success_batches(br, dataset, as_of) = {} THEN 0
    ELSE SetMax(success_batches(br, dataset, as_of))

\* --batch-dataset: runs are given the default of the script;
\* gold/apply_gold_demande_avance.py has no such option and passes the literal.
default_dataset(s) ==
    IF s = "salarie" THEN "salarie"
    ELSE IF s = "paiement" THEN "paiement"
    ELSE "demande_avance"

-----------------------------------------------------------------------------
(* The silver views and the two loaders *)

\* Rows a silver view may hold for one key, per script, in the column order of
\* the script's select.
ViewRows(s) ==
    IF s = "salarie" THEN
        \* nni, nom, prenom
        { <<"n1", "Ba", "Al">>, <<NULL, "Ba", "Aly">> }
    ELSE IF s = "paiement" THEN
        \* ref_salarie, montant_paye, rib_salarie, date_paiement, ref_demande_avance
        { <<"s1", "100.0", "rib1", "2024-08-20", "d1">>,
          <<"s1", NULL, "rib1", NULL, "d1">> }
    ELSE IF s = "demande_avance" THEN
        \* ref_salarie, montant_demande
        { <<"s1", "100.0">>, <<NULL, NULL>> }
    ELSE
        \* ref_salarie, montant_demande, montant_paye, date_paiement, ref_paiement
        { <<"s1", "100.0", "100.0", "2024-08-20", NULL>>,
          <<"s1", "100.0", "100.0", "2024-08-20", "">>,
          <<"s1", NULL, NULL, NULL, NULL>> }

\* Every content of the view over the keys: each key absent or with one row.
Views(s) ==
    UNION {[K -> ViewRows(s)] : K \in SUBSET Keys}

EmptyMap == [k \in {} |-> <<>>]

\* fetch_silver_*: the attributes of one source row as the script keeps them.
silver_row(s, r) ==
    IF s = "salarie" THEN <<str(r[1]), str(r[2]), str(r[3])>>
    ELSE IF s = "paiement" THEN
        <<str(r[1]), float_or_none(r[2]), str(r[3]), r[4], str(r[5])>>
    ELSE IF s = "demande_avance" THEN <<str(r[1]), float_or_none(r[2])>>
    ELSE <<str(r[1]), float_or_none(r[2]), float_or_none(r[3]), r[4], str_or_none(r[5])>>

\* cur.fetchall(): the rows of a view, as pairs of key and row, in any of the
\* orders the query may yield them in (the select has no order by).
fetchall(view) ==
    {[i \in 1..Cardinality(DOMAIN view) |-> <<q[i], view[q[i]]>>] :
        q \in {f \in [1..Cardinality(DOMAIN view) -> DOMAIN view] :
                  \A i, j \in DOMAIN f : f[i] = f[j] => i = j}}

query(views) == UNION {fetchall(v) : v \in views}

\* The rows the left join of demande_avance_paiement may yield: a request
\* with more than one payment comes once per payment.
JoinRows == Keys \X ViewRows("demande_avance_paiement")
JoinSelects == {<<>>} \cup {<<x>> : x \in JoinRows} \cup {<<x, y>> : x, y \in JoinRows}

keys_read(rows) == {rows[i][1] : i \in 1..Len(rows)}

\* Variant: the first row read for a key is the one kept.
fetch_silver_first_row(s, rows) ==
    [k \in keys_read(rows) |->
        silver_row(s, rows[SetMin({i \in 1..Len(rows) : rows[i][1] = k})][2])]

\* for ... in rows: out[str(key)] = {...}: a later row of a key replaces the
\* entry an earlier row of that key has made.
fetch_silver(s, rows) ==
    [k \in keys_read(rows) |->
        silver_row(s, rows[SetMax({i \in 1..Len(rows) : rows[i][1] = k})][2])]

\* The rows each of the selects yields and the dictionary made of them.
fetched(s, selects) == {[read |-> v, silver |-> fetch_silver(s, v)] : v \in selects}

\* What the loader of each script may return.
Results == [s \in Scripts |-> fetched(s, query(Views(s)))]
JoinResults == fetched("demande_avance_paiement", JoinSelects)

\* fetch_gold_current: what the script keeps of one current row.
gold_row(s, row) ==
    [attrs |-> IF s = "demande_avance"
               THEN <<str(row.attrs[1]), float_or_none(row.attrs[2])>>
               ELSE row.attrs,
     record_hash |-> row.record_hash,
     is_deleted |-> row.is_deleted]

\* The positions of the rows "where key = k and is_current = true".
current_idx(h, k) == {i \in 1..Len(h) : h[i].key = k /\ h[i].is_current}

current_keys(h) == {h[i].key : i \in {j \in 1..Len(h) : h[j].is_current}}

\* The dictionaries fetch_gold_current can return: one entry per key; when a
\* key has several current rows the last one read wins, and the order the
\* query yields them in is not fixed.
gold_current_choices(s, h) ==
    {[k \in current_keys(h) |-> gold_row(s, h[pick[k]])] :
        pick \in {f \in [current_keys(h) -> 1..Len(h)] :
                     \A k \in current_keys(h) : f[k] \in current_idx(h, k)}}

\* The tombstone row built from gold_current: paiement and
\* demande_avance_paiement pass an amount through float(), which raises on None.
tomb_raises(s, cur) ==
    IF s = "paiement" THEN float_raises(cur.attrs[2])
    ELSE IF s = "demande_avance_paiement" THEN float_raises(cur.attrs[2])
    ELSE FALSE

\* Variant: ref_paiement goes through str() whether it is None or not.
tomb_attrs_str_unguarded(s, cur) ==
    IF s = "paiement" THEN
        <<str(cur.attrs[1]), float(cur.attrs[2]), str(cur.attrs[3]), cur.attrs[4],
          str(cur.attrs[5])>>
    ELSE IF s = "demande_avance_paiement" THEN
        <<str(cur.attrs[1]), float(cur.attrs[2]), float_or_none(cur.attrs[3]), cur.attrs[4],
          str(cur.attrs[5])>>
    ELSE cur.attrs

tomb_attrs(s, cur) ==
    IF s = "paiement" THEN
        <<str(cur.attrs[1]), float(cur.attrs[2]), str(cur.attrs[3]), cur.attrs[4],
          str(cur.attrs[5])>>
    ELSE IF s = "demande_avance_paiement" THEN
        <<str(cur.attrs[1]), float(cur.attrs[2]), float_or_none(cur.attrs[3]), cur.attrs[4],
          str_or_none(cur.attrs[5])>>
    ELSE cur.attrs

-----------------------------------------------------------------------------
(* The version writer: statements inside the transaction of one connection *)

\* A connection with autocommit off: the rows it has closed (position in the
\* committed table and the valid_to it wrote) and the rows it has inserted.
EmptyTx == [closed |-> {}, inserted |-> <<>>]

closed_idx(t) == {c.idx : c \in t.closed}

\* Variant: the where clause of the update lacks the key.
close_targets_all_keys(h, t, k) == {i \in 1..Len(h) : h[i].is_current} \ closed_idx(t)

\* Variant: the where clause of the update lacks "is_current = true".
close_targets_any_version(h, t, k) == {i \in 1..Len(h) : h[i].key = k} \ closed_idx(t)

\* Rows the update of close_current matches: committed current rows of the key
\* this transaction has not closed yet, and current rows it inserted itself.
close_targets(h, t, k) == current_idx(h, k) \ closed_idx(t)

own_targets(t, k) ==
    {j \in 1..Len(t.inserted) : t.inserted[j].key = k /\ t.inserted[j].is_current}

rowcount(h, t, k) == Cardinality(close_targets(h, t, k)) + Cardinality(own_targets(t, k))

\* Variant: the update is not issued.
close_current_skipped(h, t, k, as_of) == t

\* Variant: the closed version ends the day before the as-of date.
close_current_day_before(h, t, k, as_of) ==
    [closed |-> t.closed \cup {[idx |-> i, valid_to |-> as_of - 1] : i \in close_targets(h, t, k)},
     inserted |-> [j \in 1..Len(t.inserted) |->
                     IF j \in own_targets(t, k)
                     THEN [t.inserted[j] EXCEPT !.valid_to = as_of - 1, !.is_current = FALSE]
                     ELSE t.inserted[j]]]

\* update ... set valid_to = as_of, is_current = false
\*  where key = k and is_current = true
close_current(h, t, k, as_of) ==
    [closed |-> t.closed \cup {[idx |-> i, valid_to |-> as_of] : i \in close_targets(h, t, k)},
     inserted |-> [j \in 1..Len(t.inserted) |->
                     IF j \in own_targets(t, k)
                     THEN [t.inserted[j] EXCEPT !.valid_to = as_of, !.is_current = FALSE]
                     ELSE t.inserted[j]]]

\* Variant: valid_to is the as-of date instead of date '9999-12-31'.
insert_version_valid_to_as_of(t, row, as_of, batch_id, is_deleted) ==
    [t EXCEPT !.inserted = Append(@,
        [key |-> row.key, attrs |-> row.attrs, valid_from |-> as_of, valid_to |-> as_of,
         is_current |-> TRUE, is_deleted |-> is_deleted,
         record_hash |-> compute_hash(row.attrs, is_deleted), batch_id |-> batch_id])]

\* Variant: a tombstone is written as a closed row.
insert_version_tombstone_not_current(t, row, as_of, batch_id, is_deleted) ==
    [t EXCEPT !.inserted = Append(@,
        [key |-> row.key, attrs |-> row.attrs, valid_from |-> as_of, valid_to |-> Sentinel,
         is_current |-> ~is_deleted, is_deleted |-> is_deleted,
         record_hash |-> compute_hash(row.attrs, is_deleted), batch_id |-> batch_id])]

\* Variant: the stored hash leaves the deletion flag out.
insert_version_hash_without_flag(t, row, as_of, batch_id, is_deleted) ==
    [t EXCEPT !.inserted = Append(@,
        [key |-> row.key, attrs |-> row.attrs, valid_from |-> as_of, valid_to |-> Sentinel,
         is_current |-> TRUE, is_deleted |-> is_deleted,
         record_hash |-> md5_hash(row.attrs), batch_id |-> batch_id])]

\* insert into ... values (key, attrs, as_of, date '9999-12-31', true,
\*                         is_deleted, record_hash, batch_id)
insert_version(t, row, as_of, batch_id, is_deleted) ==
    [t EXCEPT !.inserted = Append(@,
        [key |-> row.key,
         attrs |-> row.attrs,
         valid_from |-> as_of,
         valid_to |-> Sentinel,
         is_current |-> TRUE,
         is_deleted |-> is_deleted,
         record_hash |-> compute_hash(row.attrs, is_deleted),
         batch_id |-> batch_id])]

\* conn.commit(): the writes of the transaction become the committed table.
commit(h, t) ==
    [i \in 1..Len(h) |->
        IF i \in closed_idx(t)
        THEN [h[i] EXCEPT !.valid_to = (CHOOSE c \in t.closed : c.idx = i).valid_to,
                          !.is_current = FALSE]
        ELSE h[i]] \o t.inserted

\* Variant: the except branch commits.
rollback_commits(h, t) == commit(h, t)

\* Variant: the statements of every script name gold.salarie_histo.
committed_to_salarie(tables, s, t) == [tables EXCEPT !["salarie"] = commit(@, t)]

\* The history tables once script s has committed transaction t: the update
\* and the insert of s name the history table of s and no other.
committed(tables, s, t) == [tables EXCEPT ![s] = commit(@, t)]

\* conn.rollback(): the writes of the transaction are dropped.
rollback(h, t) == h

\* Variant: the hashes are not compared.
needs_new_version_deleted_only(cur, new_hash) == cur.is_deleted = TRUE

\* Variant: a deleted current version is never replaced.
needs_new_version_unless_deleted(cur, new_hash) ==
    cur.record_hash # new_hash /\ cur.is_deleted = FALSE

\* Variant: every known key of the snapshot gets a new version.
needs_new_version_always(cur, new_hash) == TRUE

\* The condition under which pass 1 writes a new version of a key it knows.
needs_new_version(cur, new_hash) ==
    cur.record_hash # new_hash \/ cur.is_deleted = TRUE

\* Variant: pass 2 does not look at is_deleted.
needs_tombstone_always(cur) == TRUE

\* The condition under which pass 2 closes the current version of a key that
\* is absent from the snapshot and writes its tombstone.
needs_tombstone(cur) == cur.is_deleted = FALSE

-----------------------------------------------------------------------------
(* The files of the ERP and the landing tables of silver_raw *)

\* The ingestion scripts.
Loaders == {"load_file", "load_silver"}

\* DATASETS[dataset]["cols"]: the primary key and one other column stand for
\* the columns a dataset expects.
ExpectedCols == {"pk", "val"}

\* Files the ERP sends: the columns of the sheet and its rows, primary key
\* first.  One file has a key with a leading blank, one changes a value and
\* drops a key, one has no row, one lacks a column.
FileAB == [columns |-> {"pk", "val"}, rows |-> << <<" A", "x">>, <<"B", "x">> >>]
FileA == [columns |-> {"pk", "val"}, rows |-> << <<"A", "y">> >>]
FileEmpty == [columns |-> {"pk", "val"}, rows |-> <<>>]
FileNoVal == [columns |-> {"pk"}, rows |-> << <<"A", NULL>> >>]
Files == {FileAB, FileA, FileEmpty, FileNoVal}

\* sha256_file: taken to be free of collisions, the digest of a file is
\* modelled by its content.
sha256_file(f) == f

\* str.strip() on the values the files hold.
strip(v) == IF v = " A" THEN "A" ELSE v

\* df[pk_col].astype(str).str.strip()
clean_pk(v) == strip(str(v))

\* df.to_dict(orient="records"): load_file has cleaned the primary key,
\* load_silver has not.
records(loader, f) ==
    [i \in 1..Len(f.rows) |->
        <<IF loader = "load_file" THEN clean_pk(f.rows[i][1]) ELSE f.rows[i][1],
          f.rows[i][2]>>]

\* The landing tables before the first file.
NoRows == [d \in Datasets |-> EmptyMap]

\* insert ... on conflict (pk) do update of one statement: a key given twice
\* makes the statement fail.
upsert_raises(rows) ==
    \E i, j \in 1..Len(rows) : i # j /\ rows[i][1] = rows[j][1]

upsert_table(table, rows) ==
    [k \in DOMAIN table \cup keys_read(rows) |->
        IF k \in keys_read(rows)
        THEN rows[CHOOSE i \in 1..Len(rows) : rows[i][1] = k][2]
        ELSE table[k]]

\* Variant: an empty key list leaves the table as it is.
sync_deletions_snapshot_keeps_all(table, pk_values) ==
    IF pk_values = {} THEN {} ELSE DOMAIN table \ pk_values

\* sync_deletions_snapshot: the keys its delete statement removes.
sync_deletions_snapshot(table, pk_values) ==
    IF pk_values = {} THEN DOMAIN table ELSE DOMAIN table \ pk_values

\* The table once the deletions of a transaction are committed.
without(table, pending) == [k \in DOMAIN table \ pending |-> table[k]]

\* The local variables of main() of an ingestion script before a run.
\* pending is the set of keys the open transaction has deleted; result, error
\* and before (the landing table when the run started) record what the run
\* did, for the properties below.
NoIngest ==
    [pc |-> "idle", loader |-> "", dataset |-> "", as_of |-> 0, file |-> FileEmpty,
     batch_id |-> 0, rows |-> <<>>, pending |-> {}, result |-> "none",
     error |-> "", before |-> EmptyMap]

-----------------------------------------------------------------------------
(* main() of an entity script, one action per statement *)

Op(name, k, is_deleted, n) ==
    [op |-> name, key |-> k, is_deleted |-> is_deleted, rowcount |-> n]

\* The keys a run with these dictionaries writes a non-deleted version of,
\* and those it writes a tombstone of.
upserted(sv, gc) ==
    {k \in DOMAIN sv :
        \/ k \notin DOMAIN gc
        \/ needs_new_version(gc[k], compute_hash(sv[k], FALSE))}

tombstoned(sv, gc) == {k \in DOMAIN gc \ DOMAIN sv : needs_tombstone(gc[k])}

new_version(k, attrs, as_of, batch_id, is_deleted) ==
    [key |-> k, attrs |-> attrs, valid_from |-> as_of, valid_to |-> Sentinel,
     is_current |-> TRUE, is_deleted |-> is_deleted,
     record_hash |-> compute_hash(attrs, is_deleted), batch_id |-> batch_id]

\* The rows of the table after a run, key by key, with no order of the keys
\* or of the two passes: the rows of keys the run does not write, the current
\* rows of the keys it writes closed at as_of, and one new row per such key.
expected_rows(h, s, sv, gc, as_of, batch_id) ==
    LET written == upserted(sv, gc) \cup tombstoned(sv, gc)
        hit == {i \in 1..Len(h) : h[i].is_current /\ h[i].key \in written}
    IN {h[i] : i \in (1..Len(h)) \ hit}
       \cup {[h[i] EXCEPT !.valid_to = as_of, !.is_current = FALSE] : i \in hit}
       \cup {new_version(k, sv[k], as_of, batch_id, FALSE) : k \in upserted(sv, gc)}
       \cup {new_version(k, tomb_attrs(s, gc[k]), as_of, batch_id, TRUE) :
                k \in tombstoned(sv, gc)}

\* The operations of such a run, whatever their order.
planned_ops(sv, gc) ==
    {Op("Insert", k, FALSE, 1) : k \in upserted(sv, gc)}
    \cup {Op("Close", k, FALSE, 1) : k \in upserted(sv, gc) \cap DOMAIN gc}
    \cup {Op("Close", k, FALSE, 1) : k \in tombstoned(sv, gc)}
    \cup {Op("Insert", k, TRUE, 1) : k \in tombstoned(sv, gc)}

rows_set(h) == {h[i] : i \in 1..Len(h)}

NoPlan == [rows |-> {}, ops |-> {}]

\* The locals of main() before a run.  todoA and todoB are the keys the loops
\* of pass 1 and pass 2 have not reached yet; key is the key whose close has
\* been issued and whose insert is the next statement.  ops, result, error,
\* loaded, prev and repeat record what the run did, for the properties below:
\* error is the exception that ended the run ("storage" for one raised by the
\* database driver).  plan is what the run is to write, fixed when it has
\* loaded its dictionaries; first is the plan of the failed run it retries.
\* The plan of a run, what a failed run had loaded, and the rows a run has
\* read from silver (read), are remembered only where watch is set.
NoRun ==
    [script |-> "", dataset |-> "", as_of |-> 0, batch_id |-> 0,
     silver |-> EmptyMap, gold_current |-> EmptyMap,
     todoA |-> {}, todoB |-> {}, key |-> "",
     ops |-> <<>>, result |-> "none", error |-> "", loaded |-> FALSE,
     prev |-> [ok |-> FALSE, failed |-> FALSE, as_of |-> 0, silver |-> EmptyMap,
               plan |-> NoPlan],
     repeat |-> FALSE, plan |-> NoPlan, retry |-> FALSE, first |-> NoPlan,
     read |-> <<>>, watch |-> FALSE]

\* When a run ends its process exits: the record of the run is kept.
Finished(l, result) ==
    [NoRun EXCEPT !.script = l.script, !.dataset = l.dataset, !.as_of = l.as_of,
                  !.ops = l.ops, !.loaded = l.loaded,
                  !.repeat = l.repeat, !.result = result,
                  !.silver = IF result = "ok" \/ (l.watch /\ l.loaded)
                             THEN l.silver ELSE EmptyMap,
                  !.plan = IF result = "error" /\ l.watch THEN l.plan ELSE NoPlan,
                  !.retry = l.retry, !.watch = l.watch]

Active(p) == pc[p] # "idle"

\* Runners of script s whose transaction is open.
Running(s) == {q \in Procs : Active(q) /\ loc[q].script = s}

\* A row lock: the update of p waits while another open transaction has
\* updated one of the rows it matches.
Blocked(p, k) ==
    \E q \in Procs \ {p} :
        /\ Active(q)
        /\ loc[q].script = loc[p].script
        /\ closed_idx(tx[q]) \cap current_idx(histo[loc[p].script], k) # {}

\* The rows a run with these two dictionaries inserts.
planned_inserts(sv, gc) ==
    Cardinality({k \in DOMAIN sv :
                    \/ k \notin DOMAIN gc
                    \/ needs_new_version(gc[k], compute_hash(sv[k], FALSE))})
    + Cardinality({k \in DOMAIN gc \ DOMAIN sv : needs_tombstone(gc[k])})

\* No call of the fingerprint function is being looked at.
NoFp == [x |-> <<>>, dx |-> FALSE, y |-> <<>>, dy |-> FALSE,
         hx |-> "", hy |-> "", called |-> FALSE]

Init ==
    /\ fp = NoFp
    /\ batch_run = BatchTable
    /\ silver_raw = NoRows
    /\ ing = [p \in Procs |-> NoIngest]
    /\ deployed \in {{s} : s \in Scripts}
    /\ histo = [s \in Scripts |-> <<>>]
    /\ pc = [p \in Procs |-> "idle"]
    /\ loc = [p \in Procs |-> NoRun]
    /\ tx = [p \in Procs |-> EmptyTx]

\* argparse, strptime, get_conn(), autocommit = False
Start(p, s, ds, d) ==
    /\ pc[p] = "idle"
    /\ s \in deployed
    /\ pc' = [pc EXCEPT ![p] = "resolve"]
    /\ loc' = [loc EXCEPT ![p] =
                 [NoRun EXCEPT !.script = s, !.dataset = ds, !.as_of = d,
                               !.result = "running", !.watch = loc[p].watch,
                               !.prev =
                                   LET ok == loc[p].result = "ok" /\ loc[p].script = s
                                       failed == /\ loc[p].watch
                                                 /\ loc[p].result = "error"
                                                 /\ loc[p].loaded
                                                 /\ loc[p].script = s
                                                 /\ loc[p].dataset = ds
                                   IN [ok |-> ok,
                                       failed |-> failed,
                                       as_of |-> IF failed THEN loc[p].as_of ELSE 0,
                                       silver |-> IF ok \/ failed THEN loc[p].silver
                                                  ELSE EmptyMap,
                                       plan |-> IF failed THEN loc[p].plan ELSE NoPlan]]]
    /\ tx' = [tx EXCEPT ![p] = EmptyTx]
    /\ UNCHANGED <<fp, silver_raw, ing, batch_run, histo, deployed>>

\* Exception e leaves the try block: except Exception: conn.rollback(); raise;
\* finally: conn.close()
Raise(p, e) ==
    /\ histo' = [histo EXCEPT ![loc[p].script] = rollback(@, tx[p])]
    /\ tx' = [tx EXCEPT ![p] = EmptyTx]
    /\ loc' = [loc EXCEPT ![p] = [Finished(loc[p], "error") EXCEPT !.error = e]]
    /\ pc' = [pc EXCEPT ![p] = "idle"]

\* batch_id = get_latest_batch_id(conn, dataset, as_of)
GetLatestBatchId(p) ==
    /\ pc[p] = "resolve"
    /\ LET b == get_latest_batch_id(batch_run, loc[p].dataset, loc[p].as_of) IN
         IF b = 0
         THEN Raise(p, "RuntimeError")
         ELSE /\ pc' = [pc EXCEPT ![p] = "load"]
              /\ loc' = [loc EXCEPT ![p].batch_id = b]
              /\ UNCHANGED <<histo, tx>>
    /\ UNCHANGED <<fp, silver_raw, ing, batch_run, deployed>>

\* silver = fetch_silver_*(conn); gold_current = fetch_gold_current(conn);
\* silver_keys = set(silver.keys()); gold_keys = set(gold_current.keys()).
\* deleted_refs = gold_keys - silver_keys is fixed from here on.
\* The loader of silver returns one of results.  The rows it has read are
\* told apart only where they are remembered.  A run is followed only when
\* the rows it writes fit in MaxRows.
Load(p, results) ==
    /\ pc[p] = "load"
    /\ \E r \in IF loc[p].watch THEN results
               ELSE {[read |-> <<>>, silver |-> x.silver] : x \in results},
          gc \in gold_current_choices(loc[p].script, histo[loc[p].script]) :
         LET sv == r.silver
             v == r.read
         IN
           /\ Len(histo[loc[p].script]) + planned_inserts(sv, gc) <= MaxRows
           /\ loc' = [loc EXCEPT ![p].silver = sv,
                                 ![p].gold_current = gc,
                                 ![p].todoA = DOMAIN sv,
                                 ![p].todoB = DOMAIN gc \ DOMAIN sv,
                                 ![p].loaded = TRUE,
                                 ![p].read = v,
                                 ![p].repeat = loc[p].prev.ok /\ loc[p].prev.silver = sv,
                                 ![p].plan =
                                     IF loc[p].watch
                                     THEN [rows |-> expected_rows(
                                                  histo[loc[p].script], loc[p].script,
                                                  sv, gc, loc[p].as_of, loc[p].batch_id),
                                           ops |-> planned_ops(sv, gc)]
                                     ELSE NoPlan,
                                 ![p].retry = /\ loc[p].prev.failed
                                              /\ loc[p].prev.silver = sv
                                              /\ loc[p].prev.as_of = loc[p].as_of,
                                 ![p].first = loc[p].prev.plan,
                                 ![p].prev = NoRun.prev]
    /\ pc' = [pc EXCEPT ![p] = "apply"]
    /\ UNCHANGED <<fp, silver_raw, ing, batch_run, histo, deployed, tx>>

\* Pass 1, one key of silver_keys: a new key is inserted; a known key whose
\* hash differs or whose current version is deleted is closed (its insert is
\* the next statement); any other key is left alone.
PassA(p) ==
    /\ pc[p] = "apply"
    /\ \E k \in loc[p].todoA :
         LET row == [key |-> k, attrs |-> loc[p].silver[k]]
             new_hash == compute_hash(row.attrs, FALSE)
             h == histo[loc[p].script]
         IN
           IF k \notin DOMAIN loc[p].gold_current
           THEN /\ tx' = [tx EXCEPT ![p] =
                            insert_version(tx[p], row, loc[p].as_of, loc[p].batch_id, FALSE)]
                /\ loc' = [loc EXCEPT ![p].todoA = @ \ {k},
                                      ![p].ops = Append(@, Op("Insert", k, FALSE, 1))]
                /\ pc' = pc
           ELSE IF needs_new_version(loc[p].gold_current[k], new_hash)
           THEN /\ ~Blocked(p, k)
                /\ tx' = [tx EXCEPT ![p] = close_current(h, tx[p], k, loc[p].as_of)]
                /\ loc' = [loc EXCEPT ![p].todoA = @ \ {k},
                                      ![p].key = k,
                                      ![p].ops = Append(@, Op("Close", k, FALSE,
                                                              rowcount(h, tx[p], k)))]
                /\ pc' = [pc EXCEPT ![p] = "insertA"]
           ELSE /\ loc' = [loc EXCEPT ![p].todoA = @ \ {k}]
                /\ UNCHANGED <<tx, pc>>
    /\ UNCHANGED <<fp, silver_raw, ing, batch_run, histo, deployed>>

\* Pass 1, the insert that follows a close.
PassAInsert(p) ==
    /\ pc[p] = "insertA"
    /\ LET k == loc[p].key
           row == [key |-> k, attrs |-> loc[p].silver[k]]
       IN /\ tx' = [tx EXCEPT ![p] =
                      insert_version(tx[p], row, loc[p].as_of, loc[p].batch_id, FALSE)]
          /\ loc' = [loc EXCEPT ![p].key = "",
                                ![p].ops = Append(@, Op("Insert", k, FALSE, 1))]
    /\ pc' = [pc EXCEPT ![p] = "apply"]
    /\ UNCHANGED <<fp, silver_raw, ing, batch_run, histo, deployed>>

\* Pass 2, one key of deleted_refs, once pass 1 is over: a version that is not
\* deleted is closed (its tombstone is built and inserted next); a tombstone
\* is left alone.
PassB(p) ==
    /\ pc[p] = "apply"
    /\ loc[p].todoA = {}
    /\ \E k \in loc[p].todoB :
         LET h == histo[loc[p].script] IN
           IF needs_tombstone(loc[p].gold_current[k])
           THEN /\ ~Blocked(p, k)
                /\ tx' = [tx EXCEPT ![p] = close_current(h, tx[p], k, loc[p].as_of)]
                /\ loc' = [loc EXCEPT ![p].todoB = @ \ {k},
                                      ![p].key = k,
                                      ![p].ops = Append(@, Op("Close", k, FALSE,
                                                              rowcount(h, tx[p], k)))]
                /\ pc' = [pc EXCEPT ![p] = "insertB"]
           ELSE /\ loc' = [loc EXCEPT ![p].todoB = @ \ {k}]
                /\ UNCHANGED <<tx, pc>>
    /\ UNCHANGED <<fp, silver_raw, ing, batch_run, histo, deployed>>

\* Pass 2, tomb = {...}; insert_version(conn, tomb, ..., is_deleted=True).
\* Building tomb raises when float() is given None.
PassBInsert(p) ==
    /\ pc[p] = "insertB"
    /\ LET k == loc[p].key
           cur == loc[p].gold_current[k]
       IN IF tomb_raises(loc[p].script, cur)
          THEN Raise(p, "TypeError")
          ELSE /\ tx' = [tx EXCEPT ![p] =
                           insert_version(tx[p],
                                          [key |-> k, attrs |-> tomb_attrs(loc[p].script, cur)],
                                          loc[p].as_of, loc[p].batch_id, TRUE)]
               /\ loc' = [loc EXCEPT ![p].key = "",
                                     ![p].ops = Append(@, Op("Insert", k, TRUE, 1))]
               /\ pc' = [pc EXCEPT ![p] = "apply"]
               /\ UNCHANGED histo
    /\ UNCHANGED <<fp, silver_raw, ing, batch_run, deployed>>

\* conn.commit(); print("OK ..."); finally: conn.close()
Commit(p) ==
    /\ pc[p] = "apply"
    /\ loc[p].todoA = {}
    /\ loc[p].todoB = {}
    /\ histo' = committed(histo, loc[p].script, tx[p])
    /\ tx' = [tx EXCEPT ![p] = EmptyTx]
    /\ loc' = [loc EXCEPT ![p] = Finished(loc[p], "ok")]
    /\ pc' = [pc EXCEPT ![p] = "idle"]
    /\ UNCHANGED <<fp, silver_raw, ing, batch_run, deployed>>

\* Any statement sent to the database, the commit included, can raise
\* (connection lost, statement timeout, deadlock).
StorageError(p) ==
    /\ Active(p)
    /\ Raise(p, "storage")
    /\ UNCHANGED <<fp, silver_raw, ing, batch_run, deployed>>

Step(p) ==
    \/ GetLatestBatchId(p)
    \/ PassA(p)
    \/ PassAInsert(p)
    \/ PassB(p)
    \/ PassBInsert(p)
    \/ Commit(p)
    \/ StorageError(p)

\* Runs one after the other: a run starts when no run is in progress.
SeqStart(p, s, ds, d) ==
    /\ \A q \in Procs : pc[q] = "idle"
    /\ Start(p, s, ds, d)

Next ==
    \/ \E p \in SeqProcs, s \in Scripts, d \in AsOfDates :
         SeqStart(p, s, default_dataset(s), d)
    \/ \E p \in SeqProcs : Load(p, Results[loc[p].script])
    \/ \E p \in SeqProcs : Step(p)

Spec == Init /\ [][Next]_vars

\* Two processes may be started at any time: nothing in the scripts keeps a
\* second run of the same script from starting while one is in progress.
InitConc ==
    /\ Init
    /\ deployed = {"salarie"}

\* The snapshots of the concurrent runs: one key, absent or with one row.
ConcViews(s) == {v \in Views(s) : DOMAIN v \subseteq {"A"}}
ConcResults == [s \in Scripts |-> fetched(s, query(ConcViews(s)))]

\* The as-of date of the concurrent runs.
ConcDates == {20240826}

NextConc ==
    \/ \E p \in Procs, s \in Scripts, d \in ConcDates :
         Start(p, s, default_dataset(s), d)
    \/ \E p \in Procs : Load(p, ConcResults[loc[p].script])
    \/ \E p \in Procs : Step(p)

SpecConc == InitConc /\ [][NextConc]_vars

\* Runs that are retried: what a failed run of the demande_avance script had
\* loaded is remembered, and the next run may be given the same snapshot and
\* as-of date.  The batch table does not change between the two.
InitRetry ==
    /\ fp = NoFp
    /\ batch_run = BatchTable
    /\ silver_raw = NoRows
    /\ ing = [p \in Procs |-> NoIngest]
    /\ deployed = {"demande_avance"}
    /\ histo = [s \in Scripts |-> <<>>]
    /\ pc = [p \in Procs |-> "idle"]
    /\ loc = [p \in Procs |-> [NoRun EXCEPT !.watch = TRUE]]
    /\ tx = [p \in Procs |-> EmptyTx]

SpecRetry == InitRetry /\ [][Next]_vars

\* Runs of demande_avance_paiement on a join that may yield a request more
\* than once.
InitJoin ==
    /\ fp = NoFp
    /\ batch_run = BatchTable
    /\ silver_raw = NoRows
    /\ ing = [p \in Procs |-> NoIngest]
    /\ deployed = {"demande_avance_paiement"}
    /\ histo = [s \in Scripts |-> <<>>]
    /\ pc = [p \in Procs |-> "idle"]
    /\ loc = [p \in Procs |-> [NoRun EXCEPT !.watch = TRUE]]
    /\ tx = [p \in Procs |-> EmptyTx]

NextJoin ==
    \/ \E p \in SeqProcs, d \in ConcDates :
         SeqStart(p, "demande_avance_paiement",
                  default_dataset("demande_avance_paiement"), d)
    \/ \E p \in SeqProcs : Load(p, JoinResults)
    \/ \E p \in SeqProcs : Step(p)

SpecJoin == InitJoin /\ [][NextJoin]_vars

\* Runs of different entities at the same time: each process runs one script,
\* again and again, whatever the other process is doing.
CrossScript == <<"salarie", "paiement">>
CrossScripts == {CrossScript[p] : p \in Procs}

InitCross ==
    /\ fp = NoFp
    /\ batch_run = BatchTable
    /\ silver_raw = NoRows
    /\ ing = [p \in Procs |-> NoIngest]
    /\ deployed = CrossScripts
    /\ histo = [s \in Scripts |-> <<>>]
    /\ pc = [p \in Procs |-> "idle"]
    /\ loc = [p \in Procs |-> NoRun]
    /\ tx = [p \in Procs |-> EmptyTx]

StartCross(p, d) == Start(p, CrossScript[p], default_dataset(CrossScript[p]), d)

NextCross ==
    \/ \E p \in Procs, d \in ConcDates : StartCross(p, d)
    \/ \E p \in Procs : Load(p, ConcResults[loc[p].script])
    \/ \E p \in Procs : Step(p)

SpecCross == InitCross /\ [][NextCross]_vars

\* The fingerprint function on its own: compute_hash is called on two rows of
\* two attributes (ref_salarie, montant_demande), each with a deletion flag.
\* Attribute values: None, text without "|", and text with "|" (at the end, at
\* the start, and the separator itself).
FpPlain == {"", "a", "b"}
FpPiped == {"a|", "|b", "a||b"}
FpValues == {NULL} \cup FpPlain \cup FpPiped
FpRows == [1..2 -> FpValues]

InitHash ==
    /\ batch_run = BatchTable
    /\ silver_raw = NoRows
    /\ ing = [p \in Procs |-> NoIngest]
    /\ deployed = {"demande_avance"}
    /\ histo = [s \in Scripts |-> <<>>]
    /\ pc = [p \in Procs |-> "idle"]
    /\ loc = [p \in Procs |-> NoRun]
    /\ tx = [p \in Procs |-> EmptyTx]
    /\ fp \in {[NoFp EXCEPT !.x = x, !.dx = dx, !.y = y, !.dy = dy] :
                 x \in FpRows, dx \in BOOLEAN, y \in FpRows, dy \in BOOLEAN}

\* compute_hash(row, is_deleted), for each of the two rows
Fingerprint ==
    /\ ~fp.called
    /\ fp' = [fp EXCEPT !.hx = compute_hash(fp.x, fp.dx),
                        !.hy = compute_hash(fp.y, fp.dy),
                        !.called = TRUE]
    /\ UNCHANGED <<silver_raw, ing, batch_run, histo, deployed, pc, loc, tx>>

NextHash == Fingerprint

SpecHash == InitHash /\ [][NextHash]_vars

-----------------------------------------------------------------------------
(* Ingestion of a file: main() of load_file.py and of load_silver.py *)

\* The rows of etl.batch_run the select of register_batch ranges over.
same_triple(br, dataset, as_of, checksum) ==
    {i \in 1..Len(br) : /\ br[i].dataset = dataset
                        /\ br[i].as_of_date = as_of
                        /\ br[i].source_checksum = checksum}

\* if status in ("SUCCESS", "SKIPPED"): return -1
skips(status) == status \in {"SUCCESS", "SKIPPED"}

\* insert into etl.batch_run(...) values (..., 'STARTED') returning batch_id
started_row(dataset, as_of, checksum) ==
    [dataset |-> dataset, as_of_date |-> as_of, source_checksum |-> checksum,
     status |-> "STARTED", message |-> ""]

\* finish_batch: update etl.batch_run set status, message where batch_id
finish_batch(br, batch_id, status, message) ==
    [br EXCEPT ![batch_id].status = status, ![batch_id].message = message]

\* The run of p is over: conn.close()
IngestEnd(p, result) ==
    ing' = [ing EXCEPT ![p].pc = "idle", ![p].result = result,
                       ![p].pending = {}, ![p].rows = <<>>]

\* argparse, meta = DATASETS[args.dataset], checksum, get_conn().  A run is
\* followed only when its batch row fits in MaxRows.
IngestStart(p, loader, dataset, as_of, f) ==
    /\ ing[p].pc = "idle"
    /\ Len(batch_run) < MaxRows
    /\ ing' = [ing EXCEPT ![p] =
                 [NoIngest EXCEPT !.pc = "register", !.loader = loader,
                                  !.dataset = dataset, !.as_of = as_of, !.file = f,
                                  !.result = "running",
                                  !.before = silver_raw[dataset]]]
    /\ UNCHANGED <<fp, batch_run, histo, deployed, pc, loc, tx, silver_raw>>

\* register_batch, the select and cur.fetchone(): of the rows of the triple
\* the query yields one, in no fixed order.  A SUCCESS row makes the call
\* return -1 and main() return.
RegisterSelect(p) ==
    /\ ing[p].pc = "register"
    /\ LET found == same_triple(batch_run, ing[p].dataset, ing[p].as_of,
                                sha256_file(ing[p].file))
       IN IF found = {}
          THEN ing' = [ing EXCEPT ![p].pc = "insert"]
          ELSE \E i \in found :
                  IF skips(batch_run[i].status)
                  THEN IngestEnd(p, "skip")
                  ELSE ing' = [ing EXCEPT ![p].pc = "insert"]
    /\ UNCHANGED <<fp, batch_run, histo, deployed, pc, loc, tx, silver_raw>>

\* register_batch, the insert of the STARTED row and conn.commit()
RegisterInsert(p) ==
    /\ ing[p].pc = "insert"
    /\ batch_run' = Append(batch_run,
                           started_row(ing[p].dataset, ing[p].as_of,
                                       sha256_file(ing[p].file)))
    /\ ing' = [ing EXCEPT ![p].pc = "read", ![p].batch_id = Len(batch_run) + 1]
    /\ UNCHANGED <<fp, histo, deployed, pc, loc, tx, silver_raw>>

\* read_file, normalize_dataframe, the check of the columns, the conversions
\* and df.to_dict: a missing column raises ValueError.
ReadFile(p) ==
    /\ ing[p].pc = "read"
    /\ IF ExpectedCols \ ing[p].file.columns # {}
       THEN ing' = [ing EXCEPT ![p].pc = "except", ![p].error = "Missing columns"]
       ELSE ing' = [ing EXCEPT ![p].pc = "upsert",
                               ![p].rows = records(ing[p].loader, ing[p].file)]
    /\ UNCHANGED <<fp, batch_run, histo, deployed, pc, loc, tx, silver_raw>>

\* upsert_table(conn, table, pk, rows, cols), which commits; nothing is done
\* for an empty list of rows.
Upsert(p) ==
    /\ ing[p].pc = "upsert"
    /\ IF upsert_raises(ing[p].rows)
       THEN /\ ing' = [ing EXCEPT ![p].pc = "except", ![p].error = "storage"]
            /\ UNCHANGED silver_raw
       ELSE /\ silver_raw' = [silver_raw EXCEPT ![ing[p].dataset] =
                                  upsert_table(@, ing[p].rows)]
            /\ ing' = [ing EXCEPT ![p].pc = IF ing[p].loader = "load_file"
                                            THEN "sync" ELSE "finish"]
    /\ UNCHANGED <<fp, batch_run, histo, deployed, pc, loc, tx>>

\* load_file only (args.snapshot is always true): sync_deletions_snapshot
\* with the cleaned keys of the file; the delete is not committed yet.
Sync(p) ==
    /\ ing[p].pc = "sync"
    /\ ing' = [ing EXCEPT ![p].pc = "commit",
                          ![p].pending = sync_deletions_snapshot(
                                             silver_raw[ing[p].dataset],
                                             keys_read(ing[p].rows))]
    /\ UNCHANGED <<fp, batch_run, histo, deployed, pc, loc, tx, silver_raw>>

\* load_file only: conn.commit()
CommitIngest(p) ==
    /\ ing[p].pc = "commit"
    /\ silver_raw' = [silver_raw EXCEPT ![ing[p].dataset] = without(@, ing[p].pending)]
    /\ ing' = [ing EXCEPT ![p].pc = "finish", ![p].pending = {}]
    /\ UNCHANGED <<fp, batch_run, histo, deployed, pc, loc, tx>>

\* finish_batch(conn, batch_id, "SUCCESS", msg)
FinishSuccess(p) ==
    /\ ing[p].pc = "finish"
    /\ batch_run' = finish_batch(batch_run, ing[p].batch_id, "SUCCESS", "OK")
    /\ IngestEnd(p, "ok")
    /\ UNCHANGED <<fp, histo, deployed, pc, loc, tx, silver_raw>>

\* A statement or a commit fails in the database driver.  Before a batch id
\* is known the handler rolls back and re-raises; after, it goes on to record
\* the failure.
IngestStorageError(p) ==
    /\ ing[p].pc \in {"register", "insert", "upsert", "sync", "commit", "finish"}
    /\ IF ing[p].batch_id = 0
       THEN ing' = [ing EXCEPT ![p].pc = "idle", ![p].result = "error",
                               ![p].error = "storage", ![p].pending = {},
                               ![p].rows = <<>>]
       ELSE ing' = [ing EXCEPT ![p].pc = "except", ![p].error = "storage"]
    /\ UNCHANGED <<fp, batch_run, histo, deployed, pc, loc, tx, silver_raw>>

\* except Exception as e: conn.rollback(); finish_batch(conn, batch_id,
\* "FAILED", str(e)); raise
FinishFailed(p) ==
    /\ ing[p].pc = "except"
    /\ batch_run' = finish_batch(batch_run, ing[p].batch_id, "FAILED", ing[p].error)
    /\ IngestEnd(p, "error")
    /\ UNCHANGED <<fp, histo, deployed, pc, loc, tx, silver_raw>>

\* except Exception as e: conn.rollback(); finish_batch fails in its turn;
\* except Exception: pass; raise
FinishFailedLost(p) ==
    /\ ing[p].pc = "except"
    /\ IngestEnd(p, "error")
    /\ UNCHANGED <<fp, batch_run, histo, deployed, pc, loc, tx, silver_raw>>

IngestStep(p) ==
    \/ RegisterSelect(p)
    \/ RegisterInsert(p)
    \/ ReadFile(p)
    \/ Upsert(p)
    \/ Sync(p)
    \/ CommitIngest(p)
    \/ FinishSuccess(p)
    \/ IngestStorageError(p)
    \/ FinishFailed(p)
    \/ FinishFailedLost(p)

\* The dataset and the as-of date the files are ingested for.
IngestDatasets == {"salarie"}

\* The ingestion scripts are run one after the other against an empty
\* registry and empty landing tables.
InitIngest ==
    /\ fp = NoFp
    /\ batch_run = <<>>
    /\ silver_raw = NoRows
    /\ ing = [p \in Procs |-> NoIngest]
    /\ deployed = {}
    /\ histo = [s \in Scripts |-> <<>>]
    /\ pc = [p \in Procs |-> "idle"]
    /\ loc = [p \in Procs |-> NoRun]
    /\ tx = [p \in Procs |-> EmptyTx]

NextIngest ==
    \/ \E p \in SeqProcs, l \in Loaders, ds \in IngestDatasets, d \in ConcDates, f \in Files :
         IngestStart(p, l, ds, d, f)
    \/ \E p \in SeqProcs : IngestStep(p)

SpecIngest == InitIngest /\ [][NextIngest]_vars

-----------------------------------------------------------------------------
(* Properties *)

rows_of(h, k) == {i \in 1..Len(h) : h[i].key = k}

\* C1 (invariant I1): in every committed state of sequential runs, every
\* natural key has at most one history row with is_current = true.
C1_AtMostOneCurrent ==
    \A s \in Scripts, k \in Keys :
        Cardinality({i \in rows_of(histo[s], k) : histo[s][i].is_current}) <= 1

\* A key with three versions, the older ones closed, beside a second key.
C1_Witness ==
    \E s \in Scripts, k \in Keys :
        /\ Cardinality(rows_of(histo[s], k)) >= 2
        /\ \E i \in rows_of(histo[s], k) : ~histo[s][i].is_current
        /\ \E i \in 1..Len(histo[s]) : histo[s][i].key # k

\* C2: once a key has a history row, every committed state holds exactly one
\* row of that key with is_current = true, never none; a key that has left
\* the snapshot keeps a current row, its tombstone.
C2_ExactlyOneCurrent ==
    \A s \in Scripts, k \in Keys :
        rows_of(histo[s], k) # {} =>
            \E i \in rows_of(histo[s], k) :
                /\ histo[s][i].is_current
                /\ \A j \in rows_of(histo[s], k) \ {i} : ~histo[s][j].is_current

\* A key whose current row is a tombstone.
C2_Witness ==
    \E s \in Scripts, k \in Keys :
        \E i \in rows_of(histo[s], k) :
            /\ histo[s][i].is_current
            /\ histo[s][i].is_deleted
            /\ \E j \in rows_of(histo[s], k) : ~histo[s][j].is_current

\* The committed table h is in line with the snapshot sv: a key of sv has a
\* current row that is not deleted and satisfies same(row, sv[k]); a key with
\* history that sv lacks has a current row that is deleted.
InLine(h, sv, same(_, _)) ==
    /\ \A k \in DOMAIN sv :
         \E i \in rows_of(h, k) :
            h[i].is_current /\ ~h[i].is_deleted /\ same(h[i], sv[k])
    /\ \A k \in Keys \ DOMAIN sv :
         rows_of(h, k) # {} =>
            \E i \in rows_of(h, k) : h[i].is_current /\ h[i].is_deleted

SameAttrs(row, attrs) == row.attrs = attrs
SameHash(row, attrs) == row.record_hash = compute_hash(attrs, FALSE)

LastRunOk(p) == pc[p] = "idle" /\ loc[p].result = "ok"

\* C3 as stated: after a successful run every key of the snapshot has a
\* current row, not deleted, whose attributes equal those of the snapshot,
\* and every key with history that the snapshot lacks has a current
\* tombstone.
C3_InLineWithSnapshot ==
    \A p \in SeqProcs :
        LastRunOk(p) => InLine(histo[loc[p].script], loc[p].silver, SameAttrs)

\* C3 as amended: after a successful run every key of the snapshot has a
\* current row, not deleted, whose record_hash is the fingerprint of the
\* snapshot's attributes (the attributes agree up to what the fingerprint
\* tells apart), and every key with history that the snapshot lacks has a
\* current tombstone.
C3_InLineUpToFingerprint ==
    \A p \in SeqProcs :
        LastRunOk(p) => InLine(histo[loc[p].script], loc[p].silver, SameHash)

\* A successful run has left one key with a current row whose attributes are
\* not those of the snapshot, and another key with a tombstone.
C3_Witness ==
    \E p \in SeqProcs :
        /\ LastRunOk(p)
        /\ \E k \in DOMAIN loc[p].silver :
             \E i \in rows_of(histo[loc[p].script], k) :
                /\ histo[loc[p].script][i].is_current
                /\ histo[loc[p].script][i].attrs # loc[p].silver[k]
        /\ \E k \in Keys \ DOMAIN loc[p].silver :
             \E i \in rows_of(histo[loc[p].script], k) :
                histo[loc[p].script][i].is_current /\ histo[loc[p].script][i].is_deleted

\* C4 (idempotence): a run that follows a committed run of the same script
\* and reads the same snapshot issues no close and no insert, and no step of
\* it changes the history table.
C4_Idempotence ==
    [][\A p \in SeqProcs :
          loc'[p].repeat => (loc'[p].ops = <<>> /\ tx'[p] = EmptyTx /\ histo' = histo)]_vars

\* A second run over an unchanged snapshot has committed, on a table that
\* holds a live version and a tombstone.
C4_Witness ==
    \E p \in SeqProcs :
        /\ LastRunOk(p)
        /\ loc[p].repeat
        /\ loc[p].silver # EmptyMap
        /\ \E i \in 1..Len(histo[loc[p].script]) :
              histo[loc[p].script][i].is_current /\ histo[loc[p].script][i].is_deleted

count_ops(ops, name) == Cardinality({i \in 1..Len(ops) : ops[i].op = name})

RECURSIVE sum_rowcount(_, _)
sum_rowcount(ops, name) ==
    IF ops = <<>> THEN 0
    ELSE (IF Head(ops).op = name THEN Head(ops).rowcount ELSE 0) + sum_rowcount(Tail(ops), name)

newly_closed(h, h2) == {i \in 1..Len(h) : h[i].is_current /\ ~h2[i].is_current}

\* C5 (atomicity): the committed history changes only in the step that
\* commits a run whose two passes are over, and then by all the closes and
\* inserts the run issued; a run that fails after issuing some of them leaves
\* the committed history as it was.
C5_Atomicity ==
    [][histo' # histo =>
         \E p \in SeqProcs :
            /\ pc[p] = "apply" /\ loc[p].todoA = {} /\ loc[p].todoB = {}
            /\ loc'[p].result = "ok"
            /\ \A s \in Scripts \ {loc[p].script} : histo'[s] = histo[s]
            /\ Len(histo'[loc[p].script]) =
                  Len(histo[loc[p].script]) + count_ops(loc[p].ops, "Insert")
            /\ Cardinality(newly_closed(histo[loc[p].script], histo'[loc[p].script])) =
                  sum_rowcount(loc[p].ops, "Close")]_vars

\* A run has failed after it had issued a close and an insert, on a table
\* that already held rows.
C5_Witness ==
    \E p \in SeqProcs :
        /\ pc[p] = "idle"
        /\ loc[p].result = "error"
        /\ count_ops(loc[p].ops, "Close") >= 1
        /\ count_ops(loc[p].ops, "Insert") >= 1
        /\ histo[loc[p].script] # <<>>

\* C6 as stated: a close that matches no row or more than one row aborts the
\* run: no insert follows it and the run does not commit.
C6_CloseOfOneRowOrAbort ==
    \A p \in Procs :
        \A i \in 1..Len(loc[p].ops) :
            (loc[p].ops[i].op = "Close" /\ loc[p].ops[i].rowcount # 1) =>
                /\ loc[p].result # "ok"
                /\ \A j \in (i + 1)..Len(loc[p].ops) : loc[p].ops[j].op # "Insert"

NoSuccessBatch(dataset, as_of) ==
    ~ \E i \in 1..Len(batch_run) :
          /\ batch_run[i].dataset = dataset
          /\ batch_run[i].as_of_date = as_of
          /\ batch_run[i].status = "SUCCESS"

\* C7 (precondition failure): a run for a (dataset, as-of date) that has no
\* batch with status SUCCESS never gets past the batch lookup: it loads
\* neither the snapshot nor the current versions, issues no statement, and
\* ends with an error, the history table untouched.
C7_NoBatchNoRun ==
    [][\A p \in SeqProcs :
          (loc[p].result = "running" /\ NoSuccessBatch(loc[p].dataset, loc[p].as_of)) =>
             /\ pc[p] = "resolve"
             /\ ~loc[p].loaded
             /\ tx[p] = EmptyTx
             /\ (pc'[p] # pc[p] =>
                   /\ loc'[p].result = "error"
                   /\ ~loc'[p].loaded
                   /\ loc'[p].ops = <<>>
                   /\ histo' = histo)]_vars

\* A run for a pair without a SUCCESS batch (the registry holds a FAILED one)
\* has ended with an error before loading, on a table that holds rows.
C7_Witness ==
    \E p \in SeqProcs :
        /\ pc[p] = "idle"
        /\ loc[p].result = "error"
        /\ ~loc[p].loaded
        /\ NoSuccessBatch(loc[p].dataset, loc[p].as_of)
        /\ \E i \in 1..Len(batch_run) :
              batch_run[i].dataset = loc[p].dataset /\ batch_run[i].as_of_date = loc[p].as_of
        /\ histo[loc[p].script] # <<>>

\* C8 (invariant I5): every version a run inserts carries the batch_id of a
\* batch of the run's (dataset, as-of date) whose status is SUCCESS, the
\* highest such batch_id, the same for all versions of the run; every
\* committed version carries the batch_id of a SUCCESS batch.
C8_BatchIdOfLatestSuccess ==
    /\ \A p \in SeqProcs :
          \A j \in 1..Len(tx[p].inserted) :
             LET b == tx[p].inserted[j].batch_id IN
               /\ b \in 1..Len(batch_run)
               /\ batch_run[b].status = "SUCCESS"
               /\ batch_run[b].dataset = loc[p].dataset
               /\ batch_run[b].as_of_date = loc[p].as_of
               /\ \A i \in (b + 1)..Len(batch_run) :
                     ~ /\ batch_run[i].status = "SUCCESS"
                       /\ batch_run[i].dataset = loc[p].dataset
                       /\ batch_run[i].as_of_date = loc[p].as_of
               /\ b = tx[p].inserted[1].batch_id
    /\ \A s \in Scripts :
          \A i \in 1..Len(histo[s]) :
             /\ histo[s][i].batch_id \in 1..Len(batch_run)
             /\ batch_run[histo[s][i].batch_id].status = "SUCCESS"

\* A run for a pair with several SUCCESS batches has inserted two versions.
C8_Witness ==
    \E p \in SeqProcs :
        /\ Len(tx[p].inserted) >= 2
        /\ \E i \in 1..Len(batch_run) :
              /\ i < tx[p].inserted[1].batch_id
              /\ batch_run[i].status = "SUCCESS"
              /\ batch_run[i].dataset = loc[p].dataset
              /\ batch_run[i].as_of_date = loc[p].as_of

\* C9 as stated (invariant I2, interval order): every history row has
\* valid_from <= valid_to, whatever the order of the as-of dates of the runs.
C9_IntervalOrder ==
    \A s \in Scripts :
        \A i \in 1..Len(histo[s]) : histo[s][i].valid_from <= histo[s][i].valid_to

\* C10 (invariant I2, shared boundary): every version that is not current has
\* a version of the same key inserted after it whose valid_from is its
\* valid_to; for a version closed by the committing run that successor is
\* inserted by the same run and both dates are the run's as-of date.
C10_SharedBoundary ==
    [][\A s \in Scripts :
          \A i \in 1..Len(histo'[s]) :
             ~histo'[s][i].is_current =>
                \E j \in (i + 1)..Len(histo'[s]) :
                   /\ histo'[s][j].key = histo'[s][i].key
                   /\ histo'[s][j].valid_from = histo'[s][i].valid_to
                   /\ i \in newly_closed(histo[s], histo'[s]) =>
                        /\ j > Len(histo[s])
                        /\ \E p \in SeqProcs :
                              loc[p].script = s /\ histo'[s][i].valid_to = loc[p].as_of]_vars

\* A key with a closed version, its tombstone closed in turn, and the version
\* that brought it back.
C10_Witness ==
    \E s \in Scripts, k \in Keys :
        \E i, j, l \in rows_of(histo[s], k) :
            /\ i < j /\ j < l
            /\ ~histo[s][i].is_current /\ ~histo[s][j].is_current
            /\ histo[s][j].is_deleted
            /\ histo[s][j].valid_from = histo[s][i].valid_to
            /\ histo[s][l].valid_from = histo[s][j].valid_to

same_version(r1, r2) ==
    /\ r1.key = r2.key /\ r1.attrs = r2.attrs /\ r1.valid_from = r2.valid_from
    /\ r1.is_deleted = r2.is_deleted /\ r1.record_hash = r2.record_hash
    /\ r1.batch_id = r2.batch_id

\* C11 (append-only history): no step removes a committed row or changes its
\* key, attributes, valid_from, is_deleted, record_hash or batch_id; a
\* committed row that changes was current and is closed (valid_to set,
\* is_current false); a row that is not current stays as it is.
C11_AppendOnly ==
    [][\A s \in Scripts :
          /\ Len(histo'[s]) >= Len(histo[s])
          /\ \A i \in 1..Len(histo[s]) :
                /\ same_version(histo[s][i], histo'[s][i])
                /\ histo'[s][i] # histo[s][i] =>
                      /\ histo[s][i].is_current
                      /\ ~histo'[s][i].is_current
                      /\ \E p \in SeqProcs : histo'[s][i].valid_to = loc[p].as_of
                /\ ~histo[s][i].is_current => histo'[s][i] = histo[s][i]]_vars

\* Two versions were closed by two runs of different as-of dates: the second
\* close was committed on a table that held a closed row of the same key.
C11_Witness ==
    \E s \in Scripts :
        \E i, j \in 1..Len(histo[s]) :
            /\ i < j
            /\ histo[s][i].key = histo[s][j].key
            /\ ~histo[s][i].is_current /\ ~histo[s][j].is_current
            /\ histo[s][i].valid_to # histo[s][j].valid_to

\* The operations a run has emitted for one key, in order.
ops_of(ops, k) == SelectSeq(ops, LAMBDA o : o.key = k)

\* The table as the open transaction of p sees it.
tx_view(p) == commit(histo[loc[p].script], tx[p])

\* Between two keys of a run that has loaded its two dictionaries.
BetweenKeys(p) == pc[p] = "apply" /\ loc[p].loaded

\* Key k is in the snapshot of the run of p, its current version is not
\* deleted and its record_hash differs from the fingerprint of the snapshot.
Changed(p, k) ==
    /\ k \in DOMAIN loc[p].silver
    /\ k \in DOMAIN loc[p].gold_current
    /\ ~loc[p].gold_current[k].is_deleted
    /\ loc[p].gold_current[k].record_hash # compute_hash(loc[p].silver[k], FALSE)

\* The current version of k in h, when there is exactly one.
current_version(h, k) == h[CHOOSE i \in current_idx(h, k) : TRUE]

\* In the view h of a run over the committed table h0: the version of k that
\* was current is closed at as_of, and one row inserted by the run is the
\* current version of k, with the given deletion flag.
Superseded(h0, h, k, as_of, is_deleted) ==
    /\ \A i \in current_idx(h0, k) : h[i].valid_to = as_of /\ ~h[i].is_current
    /\ \E j \in (Len(h0) + 1)..Len(h) :
          /\ current_idx(h, k) = {j}
          /\ h[j].is_deleted = is_deleted
          /\ h[j].valid_from = as_of
          /\ h[j].valid_to = Sentinel

\* C12 (changed attribute): once pass 1 has handled a key of the snapshot
\* whose current version is not deleted and has another record_hash than the
\* snapshot entry, the run has emitted for it exactly one Close (of one row)
\* then one Insert(is_deleted = false); the prior version has valid_to = as_of
\* and is_current = false, and the new version holds the snapshot attributes.
C12_ChangedAttribute ==
    \A p \in SeqProcs :
        BetweenKeys(p) =>
            \A k \in DOMAIN loc[p].silver \ loc[p].todoA :
                Changed(p, k) =>
                    /\ ops_of(loc[p].ops, k) =
                          <<Op("Close", k, FALSE, 1), Op("Insert", k, FALSE, 1)>>
                    /\ Superseded(histo[loc[p].script], tx_view(p), k, loc[p].as_of, FALSE)
                    /\ current_version(tx_view(p), k).attrs = loc[p].silver[k]

\* Pass 1 is over for a run in which one key has changed and the other has not.
C12_Witness ==
    \E p \in SeqProcs :
        /\ BetweenKeys(p)
        /\ loc[p].todoA = {}
        /\ \E k \in DOMAIN loc[p].silver : Changed(p, k)
        /\ \E k \in DOMAIN loc[p].silver :
              k \in DOMAIN loc[p].gold_current /\ ~Changed(p, k)

\* Key k has a current version that is not deleted and is absent from the
\* snapshot of the run of p.
Vanished(p, k) ==
    /\ k \in DOMAIN loc[p].gold_current
    /\ k \notin DOMAIN loc[p].silver
    /\ ~loc[p].gold_current[k].is_deleted

\* C13 as stated (deletion): for a key whose current version is not deleted
\* and which is absent from the snapshot, the run emits exactly one Close then
\* one Insert of a tombstone (is_deleted, is_current, valid_from = as_of), and
\* it completes whatever the attributes of the last known version, null
\* included: once the Close is emitted, the next statement of the run is the
\* Insert of the tombstone unless the database fails.
C13_Deletion ==
    [][\A p \in SeqProcs :
          /\ (BetweenKeys(p) /\ loc[p].todoA = {}) =>
                \A k \in DOMAIN loc[p].gold_current \ loc[p].todoB :
                    Vanished(p, k) =>
                        /\ ops_of(loc[p].ops, k) =
                              <<Op("Close", k, FALSE, 1), Op("Insert", k, TRUE, 1)>>
                        /\ Superseded(histo[loc[p].script], tx_view(p), k, loc[p].as_of, TRUE)
          /\ (pc[p] = "insertB" /\ loc'[p] # loc[p] /\ loc'[p].error # "storage") =>
                /\ loc'[p].result = "running"
                /\ loc'[p].ops = Append(loc[p].ops, Op("Insert", loc[p].key, TRUE, 1))]_vars

\* The version of the key of row j that precedes it in h, if any.
predecessors(h, j) ==
    {i \in 1..(j - 1) :
        /\ h[i].key = h[j].key
        /\ \A m \in (i + 1)..(j - 1) : h[m].key # h[j].key}

\* C14 (tombstone attributes): in the committed table and in the view of an
\* open run, every tombstone follows a version of its key that is not deleted
\* and holds the same attributes, field by field (a null is a null).
C14_TombstoneAttributes ==
    \A p \in SeqProcs :
        loc[p].script \in Scripts =>
            LET h == tx_view(p) IN
              \A j \in 1..Len(h) :
                  h[j].is_deleted =>
                      \E i \in predecessors(h, j) :
                          /\ ~h[i].is_deleted
                          /\ h[i].valid_to = h[j].valid_from
                          /\ h[i].attrs = h[j].attrs

\* A committed tombstone that carries a null attribute and one that is not null.
C14_Witness ==
    \E s \in Scripts :
        \E j \in 1..Len(histo[s]) :
            /\ histo[s][j].is_deleted
            /\ \E f, g \in 1..Len(histo[s][j].attrs) :
                  histo[s][j].attrs[f] = NULL /\ histo[s][j].attrs[g] # NULL

\* Key k is in the snapshot of the run of p and its current version is a
\* tombstone.
Reappeared(p, k) ==
    /\ k \in DOMAIN loc[p].silver
    /\ k \in DOMAIN loc[p].gold_current
    /\ loc[p].gold_current[k].is_deleted

\* C15 (resurrection): once pass 1 has handled a key of the snapshot whose
\* current version is a tombstone, the run has emitted for it one Close (of
\* one row) then one Insert(is_deleted = false), whatever the snapshot
\* attributes; the tombstone is closed and the current version of the key is
\* not deleted and holds the snapshot attributes.
C15_Resurrection ==
    \A p \in SeqProcs :
        BetweenKeys(p) =>
            \A k \in DOMAIN loc[p].silver \ loc[p].todoA :
                Reappeared(p, k) =>
                    /\ ops_of(loc[p].ops, k) =
                          <<Op("Close", k, FALSE, 1), Op("Insert", k, FALSE, 1)>>
                    /\ Superseded(histo[loc[p].script], tx_view(p), k, loc[p].as_of, FALSE)
                    /\ current_version(tx_view(p), k).attrs = loc[p].silver[k]

\* A key has come back with the attributes its tombstone holds, and the run
\* that brought it back has committed.
C15_Witness ==
    \E s \in Scripts :
        \E i, j \in 1..Len(histo[s]) :
            /\ i \in predecessors(histo[s], j)
            /\ histo[s][i].is_deleted /\ ~histo[s][i].is_current
            /\ ~histo[s][j].is_deleted /\ histo[s][j].is_current
            /\ histo[s][j].attrs = histo[s][i].attrs

\* A run of p is in progress and has loaded its two dictionaries.
InApply(p) == loc[p].result = "running" /\ loc[p].loaded

\* Key k is in the snapshot of the run of p, its current version is not
\* deleted and has the record_hash of the snapshot entry.
Unchanged(p, k) ==
    /\ k \in DOMAIN loc[p].silver
    /\ k \in DOMAIN loc[p].gold_current
    /\ ~loc[p].gold_current[k].is_deleted
    /\ loc[p].gold_current[k].record_hash = compute_hash(loc[p].silver[k], FALSE)

\* The run of p has written nothing for key k: no operation, and the rows of
\* k in its view are the committed rows of k.
Untouched(p, k) ==
    /\ ops_of(loc[p].ops, k) = <<>>
    /\ rows_of(tx_view(p), k) = rows_of(histo[loc[p].script], k)
    /\ \A i \in rows_of(histo[loc[p].script], k) : tx_view(p)[i] = histo[loc[p].script][i]

\* C16 (no-op): at every point of a run, for a key of the snapshot whose
\* current version is not deleted and has the record_hash of the snapshot
\* entry, the run has emitted no operation and the rows of the key are as
\* they were.
C16_NoOpUnchanged ==
    \A p \in SeqProcs :
        InApply(p) => \A k \in Keys : Unchanged(p, k) => Untouched(p, k)

\* Both passes are over for a run that has written versions of one key and
\* has left an unchanged key alone.
C16_Witness ==
    \E p \in SeqProcs :
        /\ BetweenKeys(p)
        /\ loc[p].todoA = {} /\ loc[p].todoB = {}
        /\ loc[p].ops # <<>>
        /\ \E k \in Keys : Unchanged(p, k)

\* Key k is absent from the snapshot of the run of p and its current version
\* is a tombstone.
StillAbsent(p, k) ==
    /\ k \in DOMAIN loc[p].gold_current
    /\ k \notin DOMAIN loc[p].silver
    /\ loc[p].gold_current[k].is_deleted

\* C17 (tombstone idempotence): at every point of a run, for a key absent
\* from the snapshot whose current version is a tombstone, the run has
\* emitted no operation and the rows of the key are as they were; no tombstone
\* ever follows a tombstone of the same key.
C17_TombstoneIdempotence ==
    \A p \in SeqProcs :
        loc[p].script \in Scripts =>
            /\ InApply(p) => \A k \in Keys : StillAbsent(p, k) => Untouched(p, k)
            /\ \A j \in 1..Len(tx_view(p)) :
                  tx_view(p)[j].is_deleted =>
                      \A i \in predecessors(tx_view(p), j) : ~tx_view(p)[i].is_deleted

\* A run whose snapshot lacks a key that is already tombstoned has committed,
\* after the run that wrote the tombstone.
C17_Witness ==
    \E p \in SeqProcs :
        /\ pc[p] = "idle" /\ loc[p].result = "ok"
        /\ loc[p].ops = <<>>
        /\ \E k \in Keys \ DOMAIN loc[p].silver :
              \E i \in current_idx(histo[loc[p].script], k) :
                  histo[loc[p].script][i].is_deleted

\* Key k is in the snapshot of the run of p and has no current version.
NewKey(p, k) ==
    /\ k \in DOMAIN loc[p].silver
    /\ k \notin DOMAIN loc[p].gold_current

\* C18 (new key): once pass 1 has handled a key of the snapshot that has no
\* current version, the run has emitted for it one Insert and no Close; the
\* row it inserted is the only row of the key, with the snapshot attributes,
\* is_deleted = false, is_current = true, valid_from = as_of, valid_to =
\* 9999-12-31, record_hash = fingerprint(attributes, false) and the batch_id
\* the run has resolved.
C18_NewKey ==
    \A p \in SeqProcs :
        BetweenKeys(p) =>
            \A k \in DOMAIN loc[p].silver \ loc[p].todoA :
                NewKey(p, k) =>
                    /\ ops_of(loc[p].ops, k) = <<Op("Insert", k, FALSE, 1)>>
                    /\ \E j \in (Len(histo[loc[p].script]) + 1)..Len(tx_view(p)) :
                          /\ rows_of(tx_view(p), k) = {j}
                          /\ tx_view(p)[j] =
                                [key |-> k,
                                 attrs |-> loc[p].silver[k],
                                 valid_from |-> loc[p].as_of,
                                 valid_to |-> Sentinel,
                                 is_current |-> TRUE,
                                 is_deleted |-> FALSE,
                                 record_hash |-> compute_hash(loc[p].silver[k], FALSE),
                                 batch_id |-> get_latest_batch_id(batch_run, loc[p].dataset,
                                                                  loc[p].as_of)]

\* Pass 1 is over for a run that met a new key on a table that already held
\* versions of another key.
C18_Witness ==
    \E p \in SeqProcs :
        /\ BetweenKeys(p)
        /\ loc[p].todoA = {}
        /\ histo[loc[p].script] # <<>>
        /\ \E k \in Keys : NewKey(p, k)

\* The canonical form of a row: None becomes the empty string.
canonical(row) == [i \in 1..Len(row) |-> IF row[i] = NULL THEN "" ELSE row[i]]

\* No attribute value of the row holds the character "|".
pipe_free(row) == \A i \in 1..Len(row) : row[i] \in FpPlain \cup {NULL}

\* C19 as stated (fingerprint sensitivity): two calls return the same hash
\* exactly when their attribute values and deletion flags are the same, for
\* all attribute values: None, the empty string, values holding "||".
C19_FingerprintSensitive ==
    fp.called => (fp.hx = fp.hy <=> (fp.x = fp.y /\ fp.dx = fp.dy))

\* C19 (fingerprint determinism and sensitivity): the hash is that of calling
\* the function again on the same input; identical inputs have the same hash;
\* when no attribute value holds a "|", two calls return the same hash exactly
\* when the deletion flags are the same and the attribute values are the same
\* once None is read as the empty string.
C19_FingerprintCanonical ==
    fp.called =>
        /\ fp.hx = compute_hash(fp.x, fp.dx)
        /\ (fp.x = fp.y /\ fp.dx = fp.dy) => fp.hx = fp.hy
        /\ (pipe_free(fp.x) /\ pipe_free(fp.y)) =>
              (fp.hx = fp.hy <=> (canonical(fp.x) = canonical(fp.y) /\ fp.dx = fp.dy))

\* The function was called on two rows without "|" that differ in one
\* attribute value only, a value against None, and on the same flag.
C19_Witness ==
    /\ fp.called
    /\ pipe_free(fp.x) /\ pipe_free(fp.y)
    /\ fp.dx = fp.dy
    /\ fp.x[1] = fp.y[1]
    /\ fp.x[2] = NULL /\ fp.y[2] = "a"
    /\ fp.hx # fp.hy

\* Rows a and b differ, in one attribute only, where one holds None and the
\* other the empty string.
null_versus_empty(a, b) ==
    \E f \in 1..Len(a) :
        /\ \/ a[f] = NULL /\ b[f] = ""
           \/ a[f] = "" /\ b[f] = NULL
        /\ \A g \in 1..Len(a) \ {f} : a[g] = b[g]

\* The current version of key k is not deleted and differs from the snapshot
\* entry of k by None against the empty string in one attribute.
OnlyNullVersusEmpty(p, k) ==
    /\ k \in DOMAIN loc[p].silver
    /\ k \in DOMAIN loc[p].gold_current
    /\ ~loc[p].gold_current[k].is_deleted
    /\ null_versus_empty(loc[p].gold_current[k].attrs, loc[p].silver[k])

\* C20 (null / empty collapse): when the current version of a key, not
\* deleted, and the snapshot entry of the key differ only by None against the
\* empty string in one attribute, the two have the same fingerprint and the
\* run emits no operation for the key: its rows stay as they were.
C20_NullEmptyCollapse ==
    \A p \in SeqProcs :
        InApply(p) =>
            \A k \in Keys :
                OnlyNullVersusEmpty(p, k) =>
                    /\ compute_hash(loc[p].gold_current[k].attrs, FALSE) =
                          compute_hash(loc[p].silver[k], FALSE)
                    /\ loc[p].gold_current[k].record_hash =
                          compute_hash(loc[p].silver[k], FALSE)
                    /\ Untouched(p, k)

\* Both passes are over for a run whose snapshot differs from the current
\* version of a key by None against the empty string.
C20_Witness ==
    \E p \in SeqProcs :
        /\ BetweenKeys(p)
        /\ loc[p].todoA = {} /\ loc[p].todoB = {}
        /\ \E k \in Keys : OnlyNullVersusEmpty(p, k)

\* C21 as stated (same-entity serialization): two runs of the same script
\* are never both between the load of the current versions and the commit,
\* and no two runs leave two current versions of one key.
C21_SameEntitySerialized ==
    /\ \A p, q \in Procs :
          (p # q /\ InApply(p) /\ InApply(q)) => loc[p].script # loc[q].script
    /\ \A s \in Scripts, k \in Keys : Cardinality(current_idx(histo[s], k)) <= 1

\* C22 (cross-entity concurrency): while runs of different scripts overlap,
\* the current versions a run has loaded stay the current versions of its
\* table, the committed tables change only when a run commits, and then only
\* the table of its script, by the writes of that run: each table goes
\* through the states of a serial execution of its own runs.
C22_CrossEntity ==
    [][/\ \A p \in Procs :
             InApply(p) =>
                loc[p].gold_current \in
                   gold_current_choices(loc[p].script, histo[loc[p].script])
       /\ histo' # histo =>
             \E p \in Procs :
                /\ pc[p] = "apply" /\ loc'[p].result = "ok"
                /\ histo'[loc[p].script] = commit(histo[loc[p].script], tx[p])
                /\ \A s \in Scripts \ {loc[p].script} : histo'[s] = histo[s]]_vars

\* A run of one script is between its load and its commit, has written, and
\* the table of another script has changed since: it holds rows that a run
\* started later has committed.
C22_Witness ==
    \E p, q \in Procs :
        /\ InApply(p) /\ tx[p] # EmptyTx
        /\ pc[q] = "idle" /\ loc[q].result = "ok" /\ loc[q].ops # <<>>
        /\ loc[q].script # loc[p].script
        /\ histo[loc[p].script] # <<>>
        /\ histo[loc[q].script] # <<>>

\* C23 (order independence): in a run that commits, the keys of pass 1 and
\* the keys of pass 2 are disjoint, each key has received at most one Close
\* and at most one Insert, and the committed rows are those fixed key by key
\* by the two dictionaries, whatever the order in which the keys were taken.
C23_OrderIndependence ==
    [][\A p \in SeqProcs :
          (pc[p] = "apply" /\ loc'[p].result = "ok") =>
             /\ upserted(loc[p].silver, loc[p].gold_current)
                   \cap tombstoned(loc[p].silver, loc[p].gold_current) = {}
             /\ \A k \in Keys :
                   /\ Cardinality({i \in 1..Len(loc[p].ops) :
                         loc[p].ops[i].key = k /\ loc[p].ops[i].op = "Close"}) <= 1
                   /\ Cardinality({i \in 1..Len(loc[p].ops) :
                         loc[p].ops[i].key = k /\ loc[p].ops[i].op = "Insert"}) <= 1
             /\ rows_set(histo'[loc[p].script]) =
                   expected_rows(histo[loc[p].script], loc[p].script, loc[p].silver,
                                 loc[p].gold_current, loc[p].as_of, loc[p].batch_id)
             /\ Len(histo'[loc[p].script]) =
                   Len(histo[loc[p].script])
                   + Cardinality(upserted(loc[p].silver, loc[p].gold_current)
                                 \cup tombstoned(loc[p].silver, loc[p].gold_current))]_vars

\* A run has committed writes for two keys of pass 1, the second of which it
\* took first.
C23_Witness ==
    \E p \in SeqProcs :
        /\ pc[p] = "idle" /\ loc[p].result = "ok"
        /\ Len(loc[p].ops) >= 3
        /\ loc[p].ops[1].key = "B"
        /\ \E i \in 2..Len(loc[p].ops) : loc[p].ops[i].key = "A"
        /\ \A i \in 1..Len(loc[p].ops) : ~loc[p].ops[i].is_deleted

\* C24 (idempotent retry): a run loaded its dictionaries, failed and was
\* rolled back; the next run of the same script has the same snapshot, the
\* same as-of date and the same batch.  When that run commits, the operations
\* it has applied and the rows of the table are the ones the failed run was
\* to apply and to leave, had it succeeded.
C24_IdempotentRetry ==
    [][\A p \in SeqProcs :
          (pc[p] = "apply" /\ loc'[p].result = "ok" /\ loc[p].retry) =>
             /\ rows_set(loc[p].ops) = loc[p].first.ops
             /\ rows_set(histo'[loc[p].script]) = loc[p].first.rows]_vars

\* A run that retried a failed run which had work to do has committed.
C24_Witness ==
    \E p \in SeqProcs :
        /\ pc[p] = "idle" /\ loc[p].result = "ok" /\ loc[p].retry
        /\ Len(loc[p].ops) >= 2
        /\ histo[loc[p].script] # <<>>

\* C25 (loader uniqueness): the dictionary read from silver has one entry per
\* key the query has yielded, made from the last row read for that key; the
\* dictionary of current versions has one entry per key with a current row,
\* made from one of its current rows; a run applies at most one Close and at
\* most one Insert per key.
C25_LoaderUniqueness ==
    \A p \in SeqProcs :
        InApply(p) =>
            LET s == loc[p].script
                rows == loc[p].read
                h == histo[s]
            IN /\ DOMAIN loc[p].silver = keys_read(rows)
               /\ \A k \in keys_read(rows) :
                     \A i \in 1..Len(rows) :
                        (rows[i][1] = k /\ \A j \in (i+1)..Len(rows) : rows[j][1] # k)
                           => loc[p].silver[k] = silver_row(s, rows[i][2])
               /\ DOMAIN loc[p].gold_current = current_keys(h)
               /\ \A k \in current_keys(h) :
                     \E i \in current_idx(h, k) :
                        loc[p].gold_current[k] = gold_row(s, h[i])
               /\ \A k \in Keys :
                     /\ Cardinality({i \in 1..Len(loc[p].ops) :
                           loc[p].ops[i].key = k /\ loc[p].ops[i].op = "Close"}) <= 1
                     /\ Cardinality({i \in 1..Len(loc[p].ops) :
                           loc[p].ops[i].key = k /\ loc[p].ops[i].op = "Insert"}) <= 1

\* The join has yielded a request twice, with different payments, and the run
\* has closed the current version of the request and inserted a new one.
C25_Witness ==
    \E p \in SeqProcs :
        /\ InApply(p)
        /\ Len(loc[p].read) = 2
        /\ loc[p].read[1][1] = loc[p].read[2][1]
        /\ silver_row(loc[p].script, loc[p].read[1][2])
              # silver_row(loc[p].script, loc[p].read[2][2])
        /\ Len(loc[p].ops) = 2
        /\ loc[p].ops[1].op = "Close"

\* C26 (ingestion skip): when register_batch is called and etl.batch_run holds
\* a SUCCESS row for the dataset, the as-of date and the checksum of the file,
\* whatever other rows of the triple it holds, the call returns -1 and the run
\* ends at once, with no new batch row and with silver_raw as it was.
C26_IngestionSkip ==
    [][\A p \in SeqProcs :
          (/\ ing[p].pc = "register"
           /\ ing'[p] # ing[p]
           /\ ing'[p].error = ""
           /\ \E i \in same_triple(batch_run, ing[p].dataset, ing[p].as_of,
                                    sha256_file(ing[p].file)) :
                 batch_run[i].status = "SUCCESS")
          => /\ ing'[p].pc = "idle"
             /\ ing'[p].result = "skip"
             /\ batch_run' = batch_run
             /\ silver_raw' = silver_raw]_vars

\* The keys of the file of a run, as load_file cleans them.
file_keys(f) == {clean_pk(f.rows[i][1]) : i \in 1..Len(f.rows)}

\* C27 (snapshot synchronisation): when a run of load_file has ended with
\* success, the primary keys of the landing table are the primary keys of
\* the file; a file with no key leaves the table empty.
C27_SnapshotSync ==
    \A p \in SeqProcs :
        (ing[p].pc = "idle" /\ ing[p].result = "ok" /\ ing[p].loader = "load_file")
        => DOMAIN silver_raw[ing[p].dataset] = file_keys(ing[p].file)

\* A successful run of load_file has removed a key its file lacks and has
\* changed the row of a key its file holds.
C27_Witness ==
    \E p \in SeqProcs :
        /\ ing[p].pc = "idle" /\ ing[p].result = "ok" /\ ing[p].loader = "load_file"
        /\ \E k \in DOMAIN ing[p].before : k \notin DOMAIN silver_raw[ing[p].dataset]
        /\ \E k \in DOMAIN ing[p].before \cap DOMAIN silver_raw[ing[p].dataset] :
              ing[p].before[k] # silver_raw[ing[p].dataset][k]

\* C28 (schema failure): a run whose file lacks an expected column and that
\* has registered a batch ends with an error, with the landing table as it
\* was when the run started and with its batch FAILED, the message of the
\* error in the batch row.
C28_SchemaFailure ==
    \A p \in SeqProcs :
        (/\ ing[p].pc = "idle"
         /\ ing[p].result # "none"
         /\ ing[p].batch_id > 0
         /\ ExpectedCols \ ing[p].file.columns # {})
        => /\ ing[p].result = "error"
           /\ silver_raw[ing[p].dataset] = ing[p].before
           /\ batch_run[ing[p].batch_id].status = "FAILED"
           /\ batch_run[ing[p].batch_id].message = "Missing columns"

\* C29 (batch lifecycle): a batch row is created STARTED; only a STARTED
\* status ever changes; when the run that created a batch ends, the status
\* of the batch is SUCCESS or FAILED.
C29_BatchLifecycle ==
    [][/\ \A i \in 1..Len(batch_run') :
             IF i \in 1..Len(batch_run)
             THEN batch_run'[i].status # batch_run[i].status
                     => batch_run[i].status = "STARTED"
             ELSE batch_run'[i].status = "STARTED"
       /\ \A p \in SeqProcs :
             (ing[p].pc # "idle" /\ ing'[p].pc = "idle" /\ ing[p].batch_id > 0)
             => batch_run'[ing[p].batch_id].status \in {"SUCCESS", "FAILED"}]_vars

\* C30 (no duplicate successful batches): etl.batch_run never holds two
\* SUCCESS rows with the same dataset, as-of date and checksum.
C30_NoDuplicateSuccess ==
    \A i, j \in 1..Len(batch_run) :
        (/\ i # j
         /\ batch_run[i].status = "SUCCESS"
         /\ batch_run[j].status = "SUCCESS"
         /\ batch_run[i].dataset = batch_run[j].dataset
         /\ batch_run[i].as_of_date = batch_run[j].as_of_date)
        => batch_run[i].source_checksum # batch_run[j].source_checksum

\* C31 (ingestion atomicity): when a run ends with its batch marked FAILED,
\* the landing table is as it was when the run started; and a batch is marked
\* SUCCESS only by a run that has upserted the rows of its file and has no
\* deletion left uncommitted.
C31_IngestionAtomicity ==
    [][\A p \in SeqProcs :
          /\ (/\ ing[p].pc # "idle" /\ ing'[p].pc = "idle"
              /\ ing[p].batch_id > 0
              /\ batch_run'[ing[p].batch_id].status = "FAILED")
             => silver_raw'[ing[p].dataset] = ing[p].before
          /\ (/\ ing[p].batch_id > 0
              /\ batch_run[ing[p].batch_id].status # "SUCCESS"
              /\ batch_run'[ing[p].batch_id].status = "SUCCESS")
             => /\ ing[p].pending = {}
                /\ \A i \in 1..Len(ing[p].rows) :
                      /\ ing[p].rows[i][1] \in DOMAIN silver_raw[ing[p].dataset]
                      /\ silver_raw[ing[p].dataset][ing[p].rows[i][1]] = ing[p].rows[i][2]
                /\ silver_raw' = silver_raw]_vars

\* C32 (sentinel consistency): in every committed state a history row is
\* current exactly when its valid_to is 9999-12-31; a commit that closes a row
\* takes it from current and open-ended to not current with valid_to at the
\* as-of date of the run, and every row it adds is current and open-ended.
C32_SentinelConsistency ==
    [][\A s \in Scripts :
          \A i \in 1..Len(histo'[s]) :
             /\ histo'[s][i].is_current <=> histo'[s][i].valid_to = Sentinel
             /\ (i \in 1..Len(histo[s]) /\ histo'[s][i] # histo[s][i])
                   => /\ histo[s][i].is_current
                      /\ histo[s][i].valid_to = Sentinel
                      /\ ~histo'[s][i].is_current
                      /\ \E p \in SeqProcs : histo'[s][i].valid_to = loc[p].as_of
             /\ i > Len(histo[s])
                   => histo'[s][i].is_current /\ histo'[s][i].valid_to = Sentinel]_vars

\* A committed table holds a row that was closed at an as-of date and the
\* open-ended current row that replaced it.
C32_Witness ==
    \E s \in Scripts, k \in Keys :
        \E i, j \in rows_of(histo[s], k) :
            /\ i < j
            /\ ~histo[s][i].is_current /\ histo[s][i].valid_to \in AsOfDates
            /\ histo[s][j].is_current /\ histo[s][j].valid_to = Sentinel

\* C33 (provenance): every committed history row names a batch of
\* etl.batch_run whose as_of_date is the valid_from of the row, and its
\* record_hash is the fingerprint of its own attributes and is_deleted flag;
\* a deleted row never carries the fingerprint of its attributes as not
\* deleted.
C33_Provenance ==
    \A s \in Scripts :
        \A i \in 1..Len(histo[s]) :
            LET row == histo[s][i] IN
              /\ row.batch_id \in 1..Len(batch_run)
              /\ batch_run[row.batch_id].as_of_date = row.valid_from
              /\ row.record_hash = compute_hash(row.attrs, row.is_deleted)
              /\ row.is_deleted => row.record_hash # compute_hash(row.attrs, FALSE)

\* A committed table holds a tombstone and the version it has replaced, the
\* two inserted at different as-of dates.
C33_Witness ==
    \E s \in Scripts, k \in Keys :
        \E i, j \in rows_of(histo[s], k) :
            /\ ~histo[s][i].is_deleted
            /\ histo[s][j].is_deleted
            /\ histo[s][i].valid_from < histo[s][j].valid_from
            /\ histo[s][i].batch_id # histo[s][j].batch_id

====
